---- MODULE Spec2Model ----
(***************************************************************************)
(* Model of the Bexio MCP server: the Request Gateway (bexio_client.py),   *)
(* the field completion engine (field_validator.py) and the tool           *)
(* dispatcher (server.py).                                                 *)
(*                                                                         *)
(* JSON / Python values are tagged records:                                *)
(*   NoneV, Str(<<symbols>>), IntV(n), List(<<values>>), Dict(function),   *)
(*   BoolV(b), FloatV(n).                                                  *)
(* A Python str is a sequence of symbols (one-character strings, or an     *)
(* indivisible identifier such as "address"); dict keys are TLA+ strings.  *)
(***************************************************************************)
EXTENDS Integers, Sequences, FiniteSets, TLC

VARIABLES
    pc,        \* position of the running Gateway coroutine
    call,      \* the operation invoked and its arguments
    sent,      \* upstream requests issued by this invocation, in order
    replies,   \* what the upstream answered to each of them, in order
    outcome,   \* what the operation returned or raised
    tool,      \* the tool call being handled by call_tool, if any
    globals    \* the server module: the access token of its environment,
               \* its global client and validator

vars == <<pc, call, sent, replies, outcome, tool, globals>>

\* no tool call: the operation was invoked directly
NoTool == [name |-> "none"]

\* no server module: the client or the validator was constructed directly
NoGlobals == [token |-> "none"]

(***************************************************************************)
(* Bounds of the model.                                                    *)
(***************************************************************************)
MaxCriteria == 2        \* criteria per list handed to _filter_by_criteria alone
MaxItems == 1           \* records per list handed to _filter_by_criteria alone
MaxSearchCriteria == 2  \* criteria per search_invoices / search_quotes call
MaxBatch == 2           \* records per upstream list or search answer
MaxTaxes == 3           \* taxes per answer to GET /tax
MaxPositions == 2       \* line items per positions collection
MaxInvocations == 4     \* concurrent tool calls on one server

(***************************************************************************)
(* Values.                                                                 *)
(***************************************************************************)
NoneV == [t |-> "none"]
Str(s) == [t |-> "str", v |-> s]
IntV(n) == [t |-> "int", v |-> n]
List(s) == [t |-> "list", v |-> s]
Dict(f) == [t |-> "dict", v |-> f]
BoolV(b) == [t |-> "bool", v |-> b]
FloatV(n) == [t |-> "float", v |-> n]

EmptyMap == <<>>

\* dict.get(key): the value, or None for a missing key
Get(d, k) == IF k \in DOMAIN d THEN d[k] ELSE NoneV

\* dict.get(key, default)
GetOr(d, k, default) == IF k \in DOMAIN d THEN d[k] ELSE default

\* Python truthiness, as used by `not x` and `x or y`
Truthy(x) ==
    CASE x.t = "none" -> FALSE
      [] x.t = "str"  -> Len(x.v) > 0
      [] x.t = "int"  -> x.v # 0
      [] x.t = "list" -> Len(x.v) > 0
      [] x.t = "dict" -> DOMAIN x.v # {}
      [] x.t = "bool" -> x.v
      [] x.t = "float" -> x.v # 0

\* str.lower(), one symbol
LowerChar(c) ==
    CASE c = "A" -> "a"
      [] c = "E" -> "e"
      [] c = "I" -> "i"
      [] c = "K" -> "k"
      [] c = "L" -> "l"
      [] c = "N" -> "n"
      [] OTHER   -> c

Lower(s) == [i \in 1..Len(s) |-> LowerChar(s[i])]

Digit(n) == CASE n = 0 -> "0" [] n = 1 -> "1" [] n = 2 -> "2" [] n = 3 -> "3"
              [] n = 4 -> "4" [] n = 5 -> "5" [] n = 6 -> "6" [] n = 7 -> "7"
              [] n = 8 -> "8" [] n = 9 -> "9"

\* ', '.join of the reprs of the items of a list (strings and ints)
RECURSIVE ReprItems(_)
ReprItems(l) ==
    IF l = <<>> THEN <<>>
    ELSE (IF Head(l).t = "str" THEN <<"'">> \o Head(l).v \o <<"'">>
          ELSE <<Digit(Head(l).v)>>) \o
         (IF Tail(l) = <<>> THEN <<>> ELSE <<", ">> \o ReprItems(Tail(l)))

\* str(x) for the scalars the filter meets (0 <= int <= 9) and for the
\* lists an error body carries
PyStr(x) ==
    CASE x.t = "none" -> <<"N", "o", "n", "e">>
      [] x.t = "str"  -> x.v
      [] x.t = "int"  -> <<Digit(x.v)>>
      [] x.t = "list" -> <<"[">> \o ReprItems(x.v) \o <<"]">>

\* `a in b` on strings
IsSubstr(a, b) ==
    \E i \in 0..(Len(b) - Len(a)) : SubSeq(b, i + 1, i + Len(a)) = a

\* field.split('.')
RECURSIVE Split(_)
Split(s) ==
    IF \A i \in 1..Len(s) : s[i] # "."
    THEN <<s>>
    ELSE LET i == CHOOSE k \in 1..Len(s) :
                      s[k] = "." /\ \A j \in 1..(k - 1) : s[j] # "."
         IN <<SubSeq(s, 1, i - 1)>> \o Split(SubSeq(s, i + 1, Len(s)))

\* the dict key a part of a split path denotes
RECURSIVE Join(_)
Join(p) == IF p = <<>> THEN "" ELSE Head(p) \o Join(Tail(p))

\* the loop `for part in field.split('.')` of matches()
RECURSIVE Traverse(_, _)
Traverse(actual, parts) ==
    IF parts = <<>> THEN actual
    ELSE IF actual.t = "dict"
         THEN Traverse(Get(actual.v, Join(Head(parts))), Tail(parts))
         ELSE NoneV

OpEq == <<"=">>
OpLike == <<"l", "i", "k", "e">>

\* (cond.get("criteria") or "=").lower()
OperatorOf(cond) ==
    LET c == Get(cond, "criteria")
    IN Lower(IF Truthy(c) THEN c.v ELSE OpEq)

\* what an unrecognized operator does to the record: excluded (MatchUnknownOp
\* is the faulty variant that ignores the criterion)
MatchUnknownOpSkips(rest) == rest
MatchUnknownOp(rest) == FALSE

\* the comparison of the '=' branch
Equals(actual, value) == PyStr(actual) = PyStr(value)

\* the comparison of the 'like' branch
Like(actual, value) == IsSubstr(Lower(PyStr(value)), Lower(PyStr(actual)))

\* matches(item), closed over criteria
RECURSIVE matches(_, _)
matches(item, criteria) ==
    IF criteria = <<>> THEN TRUE
    ELSE LET cond == Head(criteria)
             field == Get(cond, "field")
             value == Get(cond, "value")
             op == OperatorOf(cond)
             rest == matches(item, Tail(criteria))
         IN IF ~Truthy(field) THEN FALSE
            ELSE LET actual == Traverse(item, Split(field.v))
                 IN IF op = OpEq
                    THEN IF ~Equals(actual, value) THEN FALSE ELSE rest
                    ELSE IF op = OpLike
                    THEN IF value.t = "none" THEN FALSE
                         ELSE IF ~Like(actual, value) THEN FALSE ELSE rest
                    ELSE MatchUnknownOp(rest)

\* [it for it in items if matches(it)]
filter_by_criteria(items, criteria) ==
    SelectSeq(items, LAMBDA it : matches(it, criteria))

(***************************************************************************)
(* Inputs of the client-side filter.                                       *)
(***************************************************************************)
FieldName == <<"name_1">>
FieldCity == <<"address", ".", "city">>

\* the values of the "field" key of a criterion (None: key absent)
CriterionFields == {Str(FieldName), Str(FieldCity), NoneV}

\* the values of the "criteria" key of a criterion (None: key absent)
CriterionOps ==
    {Str(OpEq), Str(OpLike), Str(<<"L", "I", "K", "E">>),
     Str(<<"contains_exact">>), Str(<<>>), NoneV}

\* the values of the "value" key of a criterion
CriterionValues == {Str(<<"A">>), Str(<<"N", "o", "n", "e">>), NoneV}

\* a criterion is a dict; a key whose value would be None is left out
Criterion(f, o, v) ==
    [k \in ({"field" : x \in {f} \ {NoneV}}
            \cup {"criteria" : x \in {o} \ {NoneV}}
            \cup {"value" : x \in {v} \ {NoneV}})
       |-> CASE k = "field" -> f [] k = "criteria" -> o [] k = "value" -> v]

Criterions ==
    {Criterion(f, o, v) : f \in CriterionFields, o \in CriterionOps,
                          v \in CriterionValues}

SeqsUpTo(S, n) == UNION {[1..k -> S] : k \in 0..n}

CriteriaLists == SeqsUpTo(Criterions, MaxCriteria)

\* upstream records
Records ==
    {Dict([name_1 |-> Str(<<"A", "c">>), address |-> Dict([city |-> Str(<<"A">>)])]),
     Dict([name_1 |-> Str(<<"a">>), address |-> NoneV]),
     Dict([name_1 |-> Str(<<"N", "o", "n", "e">>)]),
     Dict([name_1 |-> Str(<<"b">>), address |-> Str(<<"A">>)])}

Batches == SeqsUpTo(Records, MaxBatch)

ItemLists == SeqsUpTo(Records, MaxItems)

(***************************************************************************)
(* SpecFilter: _filter_by_criteria applied to every bounded input.         *)
(***************************************************************************)
InitFilter ==
    /\ pc = "filter"
    /\ call \in [op : {"_filter_by_criteria"}, items : ItemLists,
                 criteria : CriteriaLists]
    /\ sent = <<>>
    /\ replies = <<>>
    /\ outcome = [kind |-> "none"]
    /\ tool = NoTool
    /\ globals = NoGlobals

ApplyFilter ==
    /\ pc = "filter"
    /\ pc' = "done"
    /\ outcome' = [kind |-> "return",
                   value |-> filter_by_criteria(call.items, call.criteria)]
    /\ UNCHANGED <<call, sent, replies, tool, globals>>

NextFilter == ApplyFilter

SpecFilter == InitFilter /\ [][NextFilter]_vars

(***************************************************************************)
(* The upstream and _request.                                              *)
(***************************************************************************)
FallbackLimit == 200

\* a response body: its raw text and what response.json() makes of it
\* (NotJson: json() raises)
NotJson == [t |-> "not_json"]
Body(text, json) == [text |-> text, json |-> json]

\* a non-2xx response
Status(status, body) == [kind |-> "status", status |-> status, body |-> body]

\* what the upstream may answer to a request, apart from a 2xx JSON body:
\* a non-2xx status, a 2xx without a body, a connection error, a timeout
Failures ==
    {Status(422, Body(<<"{\"message\": \"bad\"}">>,
                      Dict([message |-> Str(<<"bad">>)]))),
     [kind |-> "empty", status |-> 204],
     [kind |-> "transport", exc |-> "ConnectError"],
     [kind |-> "transport", exc |-> "ReadTimeout"]}

Json(body) == [kind |-> "json", status |-> 200, body |-> body]

\* the exception raised inside the try block of _request ("none": no exception)
RaisedInTry(reply) ==
    CASE reply.kind = "json"      -> "none"
      [] reply.kind = "empty"     -> "JSONDecodeError"   \* response.json()
      [] reply.kind = "status"    -> "HTTPStatusError"   \* raise_for_status()
      [] reply.kind = "transport" -> reply.exc           \* client.request()

\* the classes an exception is an instance of
Classes(exc) ==
    CASE exc = "HTTPStatusError" -> {"HTTPStatusError", "HTTPError", "Exception"}
      [] exc = "ConnectError"    ->
            {"ConnectError", "TransportError", "HTTPError", "Exception"}
      [] exc = "ReadTimeout"     ->
            {"ReadTimeout", "TimeoutException", "TransportError", "HTTPError",
             "Exception"}
      [] exc = "JSONDecodeError" -> {"JSONDecodeError", "ValueError", "Exception"}
      [] exc = "TypeError"       -> {"TypeError", "Exception"}
      [] exc = "ValueError"      -> {"ValueError", "Exception"}
      [] exc = "KeyError"        -> {"KeyError", "LookupError", "Exception"}

IsInstance(exc, cls) == cls \in Classes(exc)

Return(v) == [kind |-> "return", value |-> v]
Raise(exc, msg) == [kind |-> "raise", exc |-> exc, msg |-> msg]

\* `a or b`
Or(a, b) == IF Truthy(a) THEN a ELSE b

\* error_detail of a non-2xx response: the status, then the message and the
\* field errors of a JSON object, or the raw text when json() raises or the
\* JSON value has no .get (ErrorDetailRawOnly is the variant that always
\* takes the raw text)
ErrorDetailRawOnly(reply) ==
    <<"HTTP ", ToString(reply.status), ": ">> \o reply.body.text
ErrorDetail(reply) ==
    LET error_data == reply.body.json
    IN IF error_data = NotJson \/ error_data.t # "dict"
       THEN <<"HTTP ", ToString(reply.status), ": ">> \o reply.body.text
       ELSE LET message == Or(Or(Get(error_data.v, "message"),
                                 Get(error_data.v, "error")),
                              Get(error_data.v, "detail"))
                field_errors == Get(error_data.v, "errors")
            IN <<"HTTP ", ToString(reply.status)>> \o
               (IF Truthy(message) THEN <<": ">> \o PyStr(message) ELSE <<>>) \o
               (IF Truthy(field_errors)
                THEN <<" | errors: ">> \o PyStr(field_errors) ELSE <<>>)

\* the handlers of _request (RequestHandlersStatusOnly is the variant without
\* the final `except Exception`)
RequestHandlersStatusOnly(e, reply) ==
    IF IsInstance(e, "HTTPStatusError")
    THEN Raise("ValueError", <<"Bexio API error - ">> \o ErrorDetail(reply))
    ELSE Raise(e, <<e>>)
RequestHandlers(e, reply) ==
    IF IsInstance(e, "HTTPStatusError")
    THEN Raise("ValueError", <<"Bexio API error - ">> \o ErrorDetail(reply))
    ELSE IF IsInstance(e, "Exception")
    THEN Raise("ValueError", <<"Request failed: ", e>>)
    ELSE Raise(e, <<e>>)

\* _request, given the upstream's answer
request(reply) ==
    LET e == RaisedInTry(reply)
    IN IF e = "none" THEN Return(reply.body) ELSE RequestHandlers(e, reply)

Req(method, path, params, json) ==
    [method |-> method, path |-> path, params |-> params, json |-> json]

Mutating == {"POST", "PUT", "DELETE"}

Kinds == {"contact", "invoice", "quote", "order", "project", "item"}

\* the endpoint of each entity kind
Endpoint(kind) ==
    CASE kind = "contact" -> "/contact"
      [] kind = "invoice" -> "/kb_invoice"
      [] kind = "quote"   -> "/kb_offer"
      [] kind = "order"   -> "/kb_order"
      [] kind = "project" -> "/pr_project"
      [] kind = "item"    -> "/article"

ById(kind, id) == Endpoint(kind) \o "/" \o ToString(id)

Ids == {1, 2}

\* entities the upstream answers a create, update, get or delete with
Entities == {Dict([id |-> IntV(1)])}

(***************************************************************************)
(* Inputs of the Gateway operations.                                       *)
(***************************************************************************)
\* contacts as the upstream holds them
ExistingContacts ==
    {Dict([name_1 |-> Str(<<"A", "c">>), mail |-> Str(<<"a">>), nr |-> IntV(1)]),
     Dict([name_1 |-> Str(<<"a">>), email |-> Str(<<"b">>)])}

\* contact_data of create_contact and update_contact
ContactPayloads ==
    {EmptyMap,
     [name_1 |-> Str(<<"b">>)],
     [email |-> Str(<<"A">>)],
     [mail |-> Str(<<"c">>), email |-> Str(<<"A">>)],
     [name_1 |-> Str(<<"b">>), nr |-> IntV(2)]}

Position == Dict([text |-> Str(<<"A">>)])

\* invoice_data of create_invoice: contact_id and positions, each absent
\* (None here), null-like, or set
InvoiceContactIds == {NoneV, IntV(0), IntV(5)}
InvoicePositions ==
    {NoneV, List(<<>>), List(<<Position>>), Position, Str(<<"A">>)}

Payload(pairs) ==
    LET keys == {q[1] : q \in {r \in pairs : r[2] # NoneV}}
    IN [k \in keys |-> (CHOOSE q \in pairs : q[1] = k)[2]]

InvoicePayloads ==
    {Payload({<<"contact_id", c>>, <<"positions", ps>>}) :
        c \in InvoiceContactIds, ps \in InvoicePositions}
    \cup {[contact_id |-> NoneV, positions |-> NoneV]}

\* payloads of the other create and update operations
PlainPayloads == {EmptyMap, [name |-> Str(<<"a">>)]}

\* criteria of a search_invoices / search_quotes call
LadderCriterions ==
    {Criterion(Str(FieldName), Str(OpLike), Str(<<"A">>)),
     Criterion(Str(FieldCity), Str(OpEq), Str(<<"N", "o", "n", "e">>)),
     Criterion(Str(FieldName), Str(<<"contains_exact">>), Str(<<"A">>))}

SearchCriteria == SeqsUpTo(LadderCriterions, MaxSearchCriteria)

(***************************************************************************)
(* Gateway operations.  An action with pc = "idle" is the call of an       *)
(* operation up to its first await; the other actions resume it with the   *)
(* upstream's answer.                                                      *)
(***************************************************************************)
Init ==
    /\ pc = "idle"
    /\ call = [op |-> "none"]
    /\ sent = <<>>
    /\ replies = <<>>
    /\ outcome = [kind |-> "none"]
    /\ tool = NoTool
    /\ globals = NoGlobals

\* an operation issues a request and awaits the answer at `at`
Issue(c, req, at) ==
    /\ call' = c
    /\ sent' = Append(sent, req)
    /\ pc' = at
    /\ UNCHANGED <<replies, outcome, tool, globals>>

\* an operation ends with result `res`
Finish(res) ==
    /\ outcome' = res
    /\ pc' = "done"
    /\ UNCHANGED <<tool, globals>>

\* 'email' -> 'mail' (the variant NormalizeAliasKeepsEmail forgets the pop)
NormalizeAliasKeepsEmail(d) ==
    IF "email" \in DOMAIN d /\ "mail" \notin DOMAIN d
    THEN [k \in DOMAIN d \cup {"mail"} |-> IF k = "mail" THEN d["email"] ELSE d[k]]
    ELSE d
NormalizeAlias(d) ==
    IF "email" \in DOMAIN d /\ "mail" \notin DOMAIN d
    THEN [k \in (DOMAIN d \ {"email"}) \cup {"mail"} |->
             IF k = "mail" THEN d["email"] ELSE d[k]]
    ELSE d

\* {**existing, **normalized} (MergeExistingWins is {**normalized, **existing})
MergeExistingWins(existing, normalized) ==
    [k \in DOMAIN existing \cup DOMAIN normalized |->
        IF k \in DOMAIN existing THEN existing[k] ELSE normalized[k]]
Merge(existing, normalized) ==
    [k \in DOMAIN existing \cup DOMAIN normalized |->
        IF k \in DOMAIN normalized THEN normalized[k] ELSE existing[k]]

\* create_contact up to its await
CreateContact(contact_data) ==
    Issue([op |-> "create_contact", kind |-> "contact", data |-> contact_data],
          Req("POST", "/contact", NoneV, Dict(NormalizeAlias(contact_data))),
          "await")

create_contact ==
    /\ pc = "idle"
    /\ \E contact_data \in ContactPayloads : CreateContact(contact_data)

MsgContact == <<"Invoice requires ", "contact_id">>
MsgPositions ==
    <<"Invoice requires at least one ", "position", ". Provide ", "positions",
      "=[{\"type\": \"KbPositionCustom\", \"text\": \"Item description\", ",
      "\"amount\": 1, \"unit_price\": 10.0}]">>

\* the local validation of create_invoice: the error raised, or "none"
\* (InvoiceValidationNoPositions is the variant without the positions check,
\* InvoiceValidationPositionsFirst the one that checks the positions first)
InvoiceValidationPositionsFirst(invoice_data) ==
    LET positions == Get(invoice_data, "positions")
    IN IF ~Truthy(positions) \/ positions.t # "list"
       THEN Raise("ValueError", MsgPositions)
       ELSE IF ~Truthy(Get(invoice_data, "contact_id"))
       THEN Raise("ValueError", MsgContact)
       ELSE [kind |-> "none"]
InvoiceValidationNoPositions(invoice_data) ==
    IF ~Truthy(Get(invoice_data, "contact_id"))
    THEN Raise("ValueError", MsgContact)
    ELSE [kind |-> "none"]
InvoiceValidation(invoice_data) ==
    LET positions == Get(invoice_data, "positions")
    IN IF ~Truthy(Get(invoice_data, "contact_id"))
       THEN Raise("ValueError", MsgContact)
       ELSE IF ~Truthy(positions) \/ positions.t # "list"
       THEN Raise("ValueError", MsgPositions)
       ELSE [kind |-> "none"]

\* create_invoice up to its await, or to the error of its local validation
CreateInvoice(invoice_data) ==
    LET c == [op |-> "create_invoice", kind |-> "invoice", data |-> invoice_data]
        v == InvoiceValidation(invoice_data)
    IN IF v.kind = "raise"
       THEN /\ call' = c
            /\ Finish(v)
            /\ UNCHANGED <<sent, replies>>
       ELSE Issue(c, Req("POST", "/kb_invoice", NoneV, Dict(invoice_data)),
                  "await")

create_invoice ==
    /\ pc = "idle"
    /\ \E invoice_data \in InvoicePayloads : CreateInvoice(invoice_data)

\* create_quote, create_order, create_project, create_item
CreatePlain(kind, data) ==
    Issue([op |-> "create", kind |-> kind, data |-> data],
          Req("POST", Endpoint(kind), NoneV, Dict(data)), "await")

create_plain ==
    /\ pc = "idle"
    /\ \E kind \in Kinds \ {"contact", "invoice"}, data \in PlainPayloads :
          CreatePlain(kind, data)

\* update_invoice, update_quote, update_order, update_project, update_item
update_plain ==
    /\ pc = "idle"
    /\ \E kind \in Kinds \ {"contact"}, id \in Ids, data \in PlainPayloads :
          Issue([op |-> "update", kind |-> kind, id |-> id, data |-> data],
                Req("PUT", ById(kind, id), NoneV, Dict(data)), "await")

\* delete_contact, delete_invoice, ...
delete ==
    /\ pc = "idle"
    /\ \E kind \in Kinds, id \in Ids :
          Issue([op |-> "delete", kind |-> kind, id |-> id],
                Req("DELETE", ById(kind, id), NoneV, NoneV), "await")

\* get_contact, get_invoice, ...
get ==
    /\ pc = "idle"
    /\ \E kind \in Kinds, id \in Ids :
          Issue([op |-> "get", kind |-> kind, id |-> id],
                Req("GET", ById(kind, id), NoneV, NoneV), "await")

\* params of list_*: only the arguments that are not None
ListParams(limit, offset, order_by) ==
    Payload({<<"limit", limit>>, <<"offset", offset>>, <<"order_by", order_by>>})

\* list_contacts, list_invoices, ...
list ==
    /\ pc = "idle"
    /\ \E kind \in Kinds, limit \in {NoneV, IntV(50)}, offset \in {NoneV, IntV(0)} :
          Issue([op |-> "list", kind |-> kind],
                Req("GET", Endpoint(kind), Dict(ListParams(limit, offset, NoneV)), NoneV),
                "await")

\* search_contacts posts the criteria, search_orders / search_projects /
\* search_items post {"criteria": criteria}
search_plain ==
    /\ pc = "idle"
    /\ \E kind \in Kinds \ {"invoice", "quote"}, criteria \in SearchCriteria :
          Issue([op |-> "search", kind |-> kind, criteria |-> criteria],
                Req("POST", Endpoint(kind) \o "/search", NoneV,
                    IF kind = "contact" THEN List(criteria)
                    ELSE Dict([criteria |-> List(criteria)])),
                "await")

\* what the upstream may answer to the request of a single-request operation
Answers(c) ==
    Failures \cup
    {Json(b) : b \in IF c.op \in {"list", "search"}
                     THEN {List(x) : x \in Batches}
                     ELSE Entities}

\* the operation awaiting its only request resumes: delete_* discards the
\* answer and returns None, the others return it
await_reply ==
    /\ pc = "await"
    /\ \E reply \in Answers(call) :
          LET res == request(reply)
          IN /\ replies' = Append(replies, reply)
             /\ Finish(IF call.op = "delete" /\ res.kind = "return"
                       THEN Return(NoneV) ELSE res)
    /\ UNCHANGED <<call, sent>>

(***************************************************************************)
(* update_contact: fetch, merge, PUT, with `except Exception` around all   *)
(* three.                                                                  *)
(***************************************************************************)
UpdateContact(contact_id, contact_data) ==
    Issue([op |-> "update_contact", kind |-> "contact", id |-> contact_id,
           data |-> contact_data],
          Req("GET", ById("contact", contact_id), NoneV, NoneV),
          "update_contact_get")

update_contact ==
    /\ pc = "idle"
    /\ \E contact_id \in Ids, contact_data \in ContactPayloads :
          UpdateContact(contact_id, contact_data)

\* the `except Exception` fallback: PUT the provided fields only
UpdateFallback ==
    /\ sent' = Append(sent, Req("PUT", ById("contact", call.id), NoneV,
                                Dict(NormalizeAlias(call.data))))
    /\ pc' = "update_contact_fallback"
    /\ UNCHANGED <<outcome, tool, globals>>

\* get_contact answered
update_contact_get ==
    /\ pc = "update_contact_get"
    /\ \E reply \in Failures \cup {Json(e) : e \in ExistingContacts} :
          LET res == request(reply)
          IN /\ replies' = Append(replies, reply)
             /\ IF res.kind = "return"
                THEN /\ sent' = Append(sent,
                            Req("PUT", ById("contact", call.id), NoneV,
                                Dict(Merge(res.value.v, NormalizeAlias(call.data)))))
                     /\ pc' = "update_contact_put"
                     /\ UNCHANGED <<outcome, tool, globals>>
                ELSE IF IsInstance(res.exc, "Exception")
                THEN UpdateFallback
                ELSE Finish(res) /\ UNCHANGED sent
    /\ UNCHANGED call

\* the PUT of the merged contact answered
update_contact_put ==
    /\ pc = "update_contact_put"
    /\ \E reply \in Failures \cup {Json(e) : e \in Entities} :
          LET res == request(reply)
          IN /\ replies' = Append(replies, reply)
             /\ IF res.kind = "raise" /\ IsInstance(res.exc, "Exception")
                THEN UpdateFallback
                ELSE Finish(res) /\ UNCHANGED sent
    /\ UNCHANGED call

\* the PUT of the fallback answered
update_contact_fallback ==
    /\ pc = "update_contact_fallback"
    /\ \E reply \in Failures \cup {Json(e) : e \in Entities} :
          /\ replies' = Append(replies, reply)
          /\ Finish(request(reply))
    /\ UNCHANGED <<call, sent>>

(***************************************************************************)
(* search_invoices and search_quotes: the fallback ladder.                 *)
(***************************************************************************)
\* the body of the first and of the second POST (SearchBodySwapped tries the
\* envelope first)
SearchBodySwapped(step, criteria) ==
    IF step = 2 THEN List(criteria) ELSE Dict([criteria |-> List(criteria)])
SearchBody(step, criteria) ==
    IF step = 1 THEN List(criteria) ELSE Dict([criteria |-> List(criteria)])

search_ladder ==
    /\ pc = "idle"
    /\ \E kind \in {"invoice", "quote"}, criteria \in SearchCriteria :
          Issue([op |-> "search_ladder", kind |-> kind, criteria |-> criteria],
                Req("POST", Endpoint(kind) \o "/search", NoneV, SearchBody(1, criteria)),
                "search_direct")

SearchAnswers == Failures \cup {Json(List(b)) : b \in Batches}

\* the direct POST answered: return, or `except ValueError`: POST the envelope
search_direct ==
    /\ pc = "search_direct"
    /\ \E reply \in SearchAnswers :
          LET res == request(reply)
          IN /\ replies' = Append(replies, reply)
             /\ IF res.kind = "raise" /\ IsInstance(res.exc, "ValueError")
                THEN /\ sent' = Append(sent,
                            Req("POST", Endpoint(call.kind) \o "/search", NoneV,
                                SearchBody(2, call.criteria)))
                     /\ pc' = "search_wrapped"
                     /\ UNCHANGED <<outcome, tool, globals>>
                ELSE Finish(res) /\ UNCHANGED sent
    /\ UNCHANGED call

\* the enveloped POST answered: return, or `except ValueError`: list a batch
search_wrapped ==
    /\ pc = "search_wrapped"
    /\ \E reply \in SearchAnswers :
          LET res == request(reply)
          IN /\ replies' = Append(replies, reply)
             /\ IF res.kind = "raise" /\ IsInstance(res.exc, "ValueError")
                THEN /\ sent' = Append(sent,
                            Req("GET", Endpoint(call.kind),
                                Dict(ListParams(IntV(FallbackLimit), NoneV, NoneV)),
                                NoneV))
                     /\ pc' = "search_list"
                     /\ UNCHANGED <<outcome, tool, globals>>
                ELSE Finish(res) /\ UNCHANGED sent
    /\ UNCHANGED call

\* the list answered: filter the batch client-side, or propagate the error
search_list ==
    /\ pc = "search_list"
    /\ \E reply \in SearchAnswers :
          LET res == request(reply)
          IN /\ replies' = Append(replies, reply)
             /\ Finish(IF res.kind = "return"
                       THEN Return(List(filter_by_criteria(res.value.v, call.criteria)))
                       ELSE res)
    /\ UNCHANGED <<call, sent>>

Next ==
    \/ create_contact
    \/ create_invoice
    \/ create_plain
    \/ update_contact
    \/ update_plain
    \/ delete
    \/ get
    \/ list
    \/ search_plain
    \/ search_ladder
    \/ await_reply
    \/ update_contact_get
    \/ update_contact_put
    \/ update_contact_fallback
    \/ search_direct
    \/ search_wrapped
    \/ search_list

Spec == Init /\ [][Next]_vars

(***************************************************************************)
(* Properties.                                                             *)
(***************************************************************************)
IsLadder == call.op = "search_ladder"

\* the request failed: anything but a 2xx answer with a JSON body
ReplyFailed(r) == r.kind # "json"

SearchEndpoint ==
    IF call.kind = "invoice" THEN "/kb_invoice/search" ELSE "/kb_offer/search"
ListEndpoint == IF call.kind = "invoice" THEN "/kb_invoice" ELSE "/kb_offer"

\* C1: search_invoices and search_quotes issue, in this order, a POST of the
\* bare criteria, then (only after a failure) a POST of {criteria: [...]},
\* then (only after a second failure) a list with limit=200; a failed step is
\* followed by the next one, and a POST that succeeds ends the ladder with
\* its answer as the result.
C1_LadderOrder ==
    IsLadder =>
        /\ Len(sent) \in 1..3
        /\ Len(replies) \in {Len(sent) - 1, Len(sent)}
        /\ sent[1] = [method |-> "POST", path |-> SearchEndpoint, params |-> NoneV,
                      json |-> List(call.criteria)]
        /\ Len(sent) >= 2 =>
              /\ ReplyFailed(replies[1])
              /\ sent[2] = [method |-> "POST", path |-> SearchEndpoint,
                            params |-> NoneV,
                            json |-> Dict([criteria |-> List(call.criteria)])]
        /\ Len(sent) >= 3 =>
              /\ ReplyFailed(replies[2])
              /\ sent[3] = [method |-> "GET", path |-> ListEndpoint,
                            params |-> Dict([limit |-> IntV(200)]), json |-> NoneV]
        /\ \A k \in 1..Len(replies) :
              IF ReplyFailed(replies[k])
              THEN k < 3 => Len(sent) > k
              ELSE /\ Len(sent) = k
                   /\ pc = "done"
                   /\ k < 3 => outcome = Return(replies[k].body)

\* the second POST succeeded after the first failed
C1_Witness ==
    /\ IsLadder
    /\ pc = "done"
    /\ Len(sent) = 2
    /\ ReplyFailed(replies[1])
    /\ outcome.kind = "return"
    /\ Len(outcome.value.v) = 2

\* the value a dotted path denotes in a record, Absent when the traversal
\* meets a missing key, a null or a non-mapping
Absent == [t |-> "absent"]

RECURSIVE ValueAt(_, _)
ValueAt(v, parts) ==
    IF v.t = "none" THEN Absent
    ELSE IF parts = <<>> THEN v
    ELSE IF v.t # "dict" THEN Absent
    ELSE IF Join(Head(parts)) \notin DOMAIN v.v THEN Absent
    ELSE ValueAt(v.v[Join(Head(parts))], Tail(parts))

\* a criterion with field, operator and value, all strings, as the spec
\* reads it: '=' is string equality, 'like' is case-insensitive containment,
\* a field without value matches nothing, any other operator matches nothing
CriterionHolds(item, cond) ==
    LET actual == ValueAt(item, Split(cond.field.v))
    IN /\ actual # Absent
       /\ CASE cond.criteria.v = OpEq   -> PyStr(actual) = cond.value.v
            [] cond.criteria.v = OpLike ->
                  IsSubstr(Lower(cond.value.v), Lower(PyStr(actual)))
            [] OTHER -> FALSE

\* C2: when both POSTs fail, the result is exactly the records of the listed
\* batch for which every criterion holds, in batch order.
C2_FilteredBatch ==
    (IsLadder /\ pc = "done" /\ Len(replies) = 3 /\ ~ReplyFailed(replies[3])) =>
        outcome = Return(List(SelectSeq(replies[3].body.v,
                      LAMBDA it : \A j \in 1..Len(call.criteria) :
                                      CriterionHolds(it, call.criteria[j]))))

IsFilter == call.op = "_filter_by_criteria" /\ pc = "done"

HasOperator(cond) == "criteria" \in DOMAIN cond

\* C3 as claimed: a criterion whose operator (a non-empty string) is anything
\* other than '=' or 'like' excludes every record, and the filter returns
\* normally.
C3_UnknownOperatorExcludes ==
    (IsFilter /\ \E j \in 1..Len(call.criteria) :
                    /\ HasOperator(call.criteria[j])
                    /\ call.criteria[j].criteria.v \notin {<<>>, OpEq, OpLike})
        => outcome = Return(<<>>)

\* C3 amended: the operator is read case-insensitively and an empty one as
\* '='; a criterion whose non-empty operator is, in lower case, neither '='
\* nor 'like' excludes every record, and the filter returns normally.
Unrecognized(cond) ==
    /\ HasOperator(cond)
    /\ cond.criteria.v # <<>>
    /\ Lower(cond.criteria.v) \notin {OpEq, OpLike}

C3_UnknownOperatorExcludesAmended ==
    (IsFilter /\ \E j \in 1..Len(call.criteria) : Unrecognized(call.criteria[j]))
        => outcome = Return(<<>>)

\* a record that the other criterion matches is excluded by the unknown one
C3_Witness ==
    /\ IsFilter
    /\ Len(call.items) = 1
    /\ Len(call.criteria) = 2
    /\ matches(call.items[1], <<call.criteria[1]>>)
    /\ Unrecognized(call.criteria[2])
    /\ outcome = Return(<<>>)

\* C4: a record in which the criterion's path meets a missing key, a null or
\* a non-mapping is excluded by a '=' and by a 'like' criterion, whatever the
\* criterion's value.
C4_NoValueNeverMatches ==
    IsFilter =>
        \A i \in 1..Len(call.items), j \in 1..Len(call.criteria) :
            LET cond == call.criteria[j]
            IN ( /\ "field" \in DOMAIN cond
                 /\ "value" \in DOMAIN cond
                 /\ HasOperator(cond)
                 /\ cond.criteria.v \in {OpEq, OpLike}
                 /\ ValueAt(call.items[i], Split(cond.field.v)) = Absent )
               => \A k \in 1..Len(outcome.value) : outcome.value[k] # call.items[i]

IsUpdateContact == call.op = "update_contact"

FetchSucceeded == IsUpdateContact /\ Len(replies) >= 1 /\ ~ReplyFailed(replies[1])
FetchFailed == IsUpdateContact /\ Len(replies) >= 1 /\ ReplyFailed(replies[1])

\* C5 as claimed: after a successful fetch, the PUT that follows carries every
\* key the caller named with the caller's value, and every other key of the
\* existing contact with its existing value.
C5_MergedBody ==
    FetchSucceeded =>
        /\ Len(sent) >= 2
        /\ sent[2].method = "PUT"
        /\ LET existing == replies[1].body.v
               body == sent[2].json.v
           IN /\ \A k \in DOMAIN call.data :
                    k \in DOMAIN body /\ body[k] = call.data[k]
              /\ \A k \in DOMAIN existing \ DOMAIN call.data :
                    k \in DOMAIN body /\ body[k] = existing[k]

\* the caller's fields as sent: 'email' goes under 'mail' when the caller
\* gave no 'mail'
Aliased == "email" \in DOMAIN call.data /\ "mail" \notin DOMAIN call.data
CallerKeys ==
    IF Aliased THEN (DOMAIN call.data \ {"email"}) \cup {"mail"} ELSE DOMAIN call.data
CallerValue(k) == IF Aliased /\ k = "mail" THEN call.data["email"] ELSE call.data[k]

\* C5 amended: the same, of the caller's fields after the email-to-mail alias
\* normalization.
C5_MergedBodyAmended ==
    FetchSucceeded =>
        /\ Len(sent) >= 2
        /\ sent[2].method = "PUT"
        /\ sent[2].path = "/contact/" \o ToString(call.id)
        /\ LET existing == replies[1].body.v
               body == sent[2].json.v
           IN /\ DOMAIN body = DOMAIN existing \cup CallerKeys
              /\ \A k \in CallerKeys : body[k] = CallerValue(k)
              /\ \A k \in DOMAIN existing \ CallerKeys : body[k] = existing[k]

\* the caller's email replaced the mail of the existing contact, whose name
\* was kept, and the PUT succeeded
C5_Witness ==
    /\ FetchSucceeded
    /\ pc = "done"
    /\ Len(sent) = 2
    /\ outcome.kind = "return"
    /\ Aliased
    /\ "mail" \in DOMAIN replies[1].body.v
    /\ sent[2].json.v["mail"] = call.data["email"]
    /\ sent[2].json.v["mail"] # replies[1].body.v["mail"]
    /\ sent[2].json.v["name_1"] = replies[1].body.v["name_1"]

\* C6: after a failed fetch, exactly one PUT is issued, with the caller's
\* fields (alias-normalized) alone as its body, and its outcome is the
\* outcome of the operation.
C6_UnmergedFallback ==
    FetchFailed =>
        /\ Len(sent) = 2
        /\ sent[2].method = "PUT"
        /\ sent[2].path = "/contact/" \o ToString(call.id)
        /\ DOMAIN sent[2].json.v = CallerKeys
        /\ \A k \in CallerKeys : sent[2].json.v[k] = CallerValue(k)
        /\ Len(replies) = 2 =>
              /\ pc = "done"
              /\ IF ReplyFailed(replies[2])
                 THEN outcome.kind = "raise" /\ outcome.exc = "ValueError"
                 ELSE outcome = Return(replies[2].body)

\* the fetch timed out, and the PUT of the aliased fields succeeded
C6_Witness ==
    /\ FetchFailed
    /\ replies[1].kind = "transport"
    /\ Aliased
    /\ pc = "done"
    /\ outcome.kind = "return"

IsWrite == call.op \in {"create_contact", "create_invoice", "create",
                        "update_contact", "update", "delete"}

\* C7: a create, update or delete issues at most one POST, PUT or DELETE.
C7_SingleAttempt ==
    IsWrite => Cardinality({i \in 1..Len(sent) : sent[i].method \in Mutating}) <= 1

IsCreateInvoice == call.op = "create_invoice"

LacksContact ==
    "contact_id" \notin DOMAIN call.data \/ call.data["contact_id"] = NoneV
BadPositions ==
    \/ "positions" \notin DOMAIN call.data
    \/ call.data["positions"] = NoneV
    \/ call.data["positions"].t # "list"
    \/ call.data["positions"] = List(<<>>)

\* C8: create_invoice without a contact reference, or with positions absent,
\* empty or not a list, raises and issues no request.
C8_InvoicePrevalidation ==
    (IsCreateInvoice /\ (LacksContact \/ BadPositions)) =>
        /\ pc = "done"
        /\ outcome.kind = "raise"
        /\ sent = <<>>

\* a contact reference and positions that are a non-empty mapping
C8_Witness ==
    /\ IsCreateInvoice
    /\ ~LacksContact
    /\ "positions" \in DOMAIN call.data
    /\ call.data["positions"].t = "dict"
    /\ outcome.kind = "raise"
    /\ sent = <<>>

Names(msg, words) == \E i \in 1..Len(msg) : msg[i] \in words

C10_UniformError ==
    /\ \A i \in 1..Len(replies) :
          ReplyFailed(replies[i]) =>
              /\ request(replies[i]).kind = "raise"
              /\ request(replies[i]).exc = "ValueError"
    /\ outcome.kind = "raise" => outcome.exc = "ValueError"
    /\ (pc = "done" /\ replies # <<>> /\ ReplyFailed(replies[Len(replies)])) =>
          outcome.kind = "raise"

\* an operation whose request timed out has raised
C10_Witness ==
    /\ pc = "done"
    /\ replies # <<>>
    /\ replies[Len(replies)].kind = "transport"
    /\ replies[Len(replies)].exc = "ReadTimeout"
    /\ outcome.kind = "raise"

\* C11: a delete whose DELETE request is answered with a 2xx status and no
\* response body completes successfully, without raising.
C11_DeleteNoBody ==
    (/\ call.op = "delete"
     /\ pc = "done"
     /\ replies # <<>>
     /\ replies[Len(replies)].kind = "empty") =>
        outcome.kind = "return"

(***************************************************************************)
(* The field completion engine (field_validator.py): default tax id.       *)
(***************************************************************************)
\* taxes as GET /tax lists them; the id tells them apart
Taxes ==
    {Dict([id |-> IntV(2), is_active |-> BoolV(TRUE), percentage |-> IntV(8)]),
     Dict([id |-> IntV(3), is_active |-> BoolV(FALSE), percentage |-> IntV(8)]),
     Dict([id |-> IntV(4), percentage |-> IntV(8)]),
     Dict([id |-> IntV(5), is_active |-> BoolV(TRUE), percentage |-> IntV(0)]),
     Dict([id |-> IntV(6), is_active |-> BoolV(TRUE)])}

TaxLists == SeqsUpTo(Taxes, MaxTaxes)

\* what the upstream may answer to GET /tax
TaxAnswers == Failures \cup {Json(List(l)) : l \in TaxLists}

TaxRequest == Req("GET", "/tax", NoneV, NoneV)

\* tax.get("is_active", True) and tax.get("percentage", 0) > 0
\* (TaxQualifiesMarked is the variant that wants the is_active mark)
TaxQualifiesMarked(tax) ==
    /\ Truthy(GetOr(tax.v, "is_active", BoolV(FALSE)))
    /\ GetOr(tax.v, "percentage", IntV(0)).v > 0
TaxQualifies(tax) ==
    /\ Truthy(GetOr(tax.v, "is_active", BoolV(TRUE)))
    /\ GetOr(tax.v, "percentage", IntV(0)).v > 0

\* _get_default_tax_id; client: whether the validator has a bexio_client,
\* reply: the upstream's answer to GET /tax (unused without a client)
get_default_tax_id(client, reply) ==
    IF ~client THEN IntV(1)
    ELSE LET res == request(reply)
         IN IF res.kind = "raise"
            THEN IntV(1)                              \* except Exception: pass
            ELSE LET taxes == res.value
                     qualifying == {i \in 1..Len(taxes.v) : TaxQualifies(taxes.v[i])}
                 IN IF Truthy(taxes) /\ Len(taxes.v) > 0
                    THEN IF qualifying # {}
                         THEN LET first == CHOOSE i \in qualifying :
                                               \A j \in qualifying : i <= j
                              IN GetOr(taxes.v[first].v, "id", IntV(1))
                         ELSE GetOr(taxes.v[1].v, "id", IntV(1))
                    ELSE IntV(1)

(***************************************************************************)
(* SpecTax: _get_default_tax_id against every bounded answer to GET /tax.  *)
(***************************************************************************)
InitTax ==
    /\ pc = "tax"
    /\ call \in [op : {"_get_default_tax_id"}, client : BOOLEAN]
    /\ sent = <<>>
    /\ replies = <<>>
    /\ outcome = [kind |-> "none"]
    /\ tool = NoTool
    /\ globals = NoGlobals

\* without a client: return 1, no request
tax_no_client ==
    /\ pc = "tax"
    /\ ~call.client
    /\ Finish(Return(get_default_tax_id(FALSE, NoneV)))
    /\ UNCHANGED <<call, sent, replies>>

\* with a client: GET /tax, then the choice among the taxes listed
tax_lookup ==
    /\ pc = "tax"
    /\ call.client
    /\ \E reply \in TaxAnswers :
          /\ sent' = Append(sent, TaxRequest)
          /\ replies' = Append(replies, reply)
          /\ Finish(Return(get_default_tax_id(TRUE, reply)))
    /\ UNCHANGED call

NextTax ==
    \/ tax_no_client
    \/ tax_lookup

SpecTax == InitTax /\ [][NextTax]_vars

(***************************************************************************)
(* Properties of the default tax id.                                       *)
(***************************************************************************)
IsTax == call.op = "_get_default_tax_id" /\ pc = "done"

\* the taxes the query listed, when it succeeded
TaxesListed == replies[1].body.v

TaxQueryFailed == ~call.client \/ ReplyFailed(replies[1])

PositiveRate(tax) == "percentage" \in DOMAIN tax.v /\ tax.v["percentage"].v > 0

\* first position in `taxes` of a tax in `S` (0: none)
FirstIn(taxes, S) ==
    IF \E i \in 1..Len(taxes) : taxes[i] \in S
    THEN CHOOSE i \in 1..Len(taxes) :
            /\ taxes[i] \in S
            /\ \A j \in 1..(i - 1) : taxes[j] \notin S
    ELSE 0

MarkedActive ==
    {tax \in Taxes : /\ "is_active" \in DOMAIN tax.v
                     /\ tax.v["is_active"] = BoolV(TRUE)
                     /\ PositiveRate(tax)}

NotMarkedInactive ==
    {tax \in Taxes : /\ ("is_active" \in DOMAIN tax.v =>
                            tax.v["is_active"] = BoolV(TRUE))
                     /\ PositiveRate(tax)}

\* the id the resolution must return when the query listed `taxes` and the
\* taxes of `S` are the ones that qualify; 0 stands for "anything but the
\* constant"
Resolved(taxes, S) ==
    IF FirstIn(taxes, S) # 0 THEN taxes[FirstIn(taxes, S)].v["id"]
    ELSE IF taxes # <<>> THEN taxes[1].v["id"]
    ELSE IntV(0)

\* C20: the default tax id is the id of the first listed tax that is marked
\* active with a positive rate; if none qualifies, the id of the first tax
\* listed; and the constant 1 only if the taxes query itself fails or no
\* client is configured.
C20_DefaultTax ==
    IsTax =>
        /\ outcome.kind = "return"
        /\ IF TaxQueryFailed THEN outcome.value = IntV(1)
           ELSE /\ outcome.value # IntV(1)
                /\ TaxesListed # <<>> =>
                      outcome.value = Resolved(TaxesListed, MarkedActive)

\* C20 amended: the first listed tax that has a positive rate and is not
\* marked inactive (an is_active mark that is absent counts as active); if
\* none, the first tax listed; the constant 1 if the query fails, no client
\* is configured, or the query lists no tax at all.
C20_DefaultTaxAmended ==
    IsTax =>
        /\ outcome.kind = "return"
        /\ IF TaxQueryFailed \/ TaxesListed = <<>> THEN outcome.value = IntV(1)
           ELSE outcome.value = Resolved(TaxesListed, NotMarkedInactive)

\* an inactive tax is passed over for a later tax without an is_active mark
C20_Witness ==
    /\ IsTax
    /\ ~TaxQueryFailed
    /\ Len(TaxesListed) = 2
    /\ TaxesListed[1].v["id"] = IntV(3)
    /\ TaxesListed[2].v["id"] = IntV(4)
    /\ outcome = Return(IntV(4))

(***************************************************************************)
(* The field completion engine: invoice line items.                        *)
(***************************************************************************)
DEFAULT_INVOICE_POSITION ==
    [type |-> Str(<<"KbPositionCustom">>), amount |-> IntV(1),
     unit_price |-> FloatV(0), tax_id |-> NoneV]

\* {**a, **b}
DictUnion(a, b) ==
    [k \in DOMAIN a \cup DOMAIN b |-> IF k \in DOMAIN b THEN b[k] ELSE a[k]]

\* d with d[k] = v
Put(d, k, v) == [x \in DOMAIN d \cup {k} |-> IF x = k THEN v ELSE d[x]]

\* the body of the loop of _complete_invoice_positions, for one line item
\* (CompletePositionAlwaysDefaultTax is the variant that assigns the default tax id
\* to every item)
CompletePositionAlwaysDefaultTax(pos, default_tax_id) ==
    LET merged == DictUnion(DEFAULT_INVOICE_POSITION, pos.v)
        texted == IF "text" \notin DOMAIN merged
                  THEN Put(merged, "text", Str(<<"Service">>)) ELSE merged
    IN Dict(Put(texted, "tax_id", default_tax_id))
CompletePosition(pos, default_tax_id) ==
    LET merged == DictUnion(DEFAULT_INVOICE_POSITION, pos.v)
        texted == IF "text" \notin DOMAIN merged
                  THEN Put(merged, "text", Str(<<"Service">>)) ELSE merged
        amounted == IF "amount" \notin DOMAIN texted
                    THEN Put(texted, "amount", IntV(1)) ELSE texted
        priced == IF "unit_price" \notin DOMAIN amounted
                  THEN Put(amounted, "unit_price", FloatV(0)) ELSE amounted
    IN Dict(IF "tax_id" \notin DOMAIN priced \/ priced["tax_id"] = NoneV
            THEN Put(priced, "tax_id", default_tax_id) ELSE priced)

\* _complete_invoice_positions, given the default tax id it resolved
\* (complete_invoice_positions_own_tax is the variant that resolves an id
\* of its own for every item)
complete_invoice_positions_own_tax(positions, default_tax_id) ==
    [i \in 1..Len(positions) |->
        CompletePosition(positions[i], IntV(default_tax_id.v + i - 1))]
complete_invoice_positions(positions, default_tax_id) ==
    [i \in 1..Len(positions) |-> CompletePosition(positions[i], default_tax_id)]

\* line items as callers write them
PositionItems ==
    {Dict(EmptyMap),
     Dict([text |-> Str(<<"A">>), tax_id |-> IntV(7)]),
     Dict([text |-> NoneV]),
     Dict([tax_id |-> NoneV, amount |-> NoneV])}

PositionLists == SeqsUpTo(PositionItems, MaxPositions)

(***************************************************************************)
(* SpecPositions: _complete_invoice_positions on every bounded collection, *)
(* and once more on its own output.                                        *)
(***************************************************************************)
InitPositions ==
    /\ pc = "positions"
    /\ call \in [op : {"_complete_invoice_positions"}, client : BOOLEAN,
                 positions : PositionLists, pass : {1}]
    /\ sent = <<>>
    /\ replies = <<>>
    /\ outcome = [kind |-> "none"]
    /\ tool = NoTool
    /\ globals = NoGlobals

\* one call: the default tax id is resolved (one GET /tax when there is a
\* client), then every item is completed
complete_positions ==
    /\ pc = "positions"
    /\ \/ /\ ~call.client
          /\ Finish(Return(List(complete_invoice_positions(
                        call.positions, get_default_tax_id(FALSE, NoneV)))))
          /\ UNCHANGED <<sent, replies>>
       \/ /\ call.client
          /\ \E reply \in TaxAnswers :
                /\ sent' = Append(sent, TaxRequest)
                /\ replies' = Append(replies, reply)
                /\ Finish(Return(List(complete_invoice_positions(
                              call.positions, get_default_tax_id(TRUE, reply)))))
    /\ UNCHANGED call

\* the caller hands the completed collection to a second call
complete_positions_again ==
    /\ pc = "done"
    /\ call.pass = 1
    /\ call' = [call EXCEPT !.positions = outcome.value.v, !.pass = 2]
    /\ pc' = "positions"
    /\ sent' = <<>>
    /\ replies' = <<>>
    /\ outcome' = [kind |-> "none"]
    /\ UNCHANGED <<tool, globals>>

NextPositions ==
    \/ complete_positions
    \/ complete_positions_again

SpecPositions == InitPositions /\ [][NextPositions]_vars

(***************************************************************************)
(* Properties of line-item completion.                                     *)
(***************************************************************************)
IsPositions == call.op = "_complete_invoice_positions" /\ pc = "done"

\* C17: line-item completion is idempotent: completing the output of a
\* completion gives the same collection, item for item and in the same
\* order, also when the upstream tax configuration differs between the two
\* passes.
C17_PositionsIdempotent ==
    (IsPositions /\ call.pass = 2) =>
        /\ outcome.kind = "return"
        /\ outcome.value = List(call.positions)

\* the second pass saw another tax configuration than the one that filled
\* the tax id of the item in the first pass
C17_Witness ==
    /\ IsPositions
    /\ call.pass = 2
    /\ call.client
    /\ Len(call.positions) = 2
    /\ call.positions[1].v["tax_id"] = IntV(4)
    /\ get_default_tax_id(TRUE, replies[1]) = IntV(2)
    /\ outcome.value = List(call.positions)

PositionFields == {"type", "text", "amount", "unit_price", "tax_id"}

\* C18: after line-item completion every item has a non-null type, text,
\* amount, unit_price and tax_id, also when the input item carries some of
\* these keys with a null value.
C18_PositionsComplete ==
    (IsPositions /\ call.pass = 1) =>
        /\ outcome.kind = "return"
        /\ Len(outcome.value.v) = Len(call.positions)
        /\ \A i \in 1..Len(outcome.value.v) :
              \A k \in PositionFields :
                 /\ k \in DOMAIN outcome.value.v[i].v
                 /\ outcome.value.v[i].v[k] # NoneV

(***************************************************************************)
(* The field completion engine: the policy table and                       *)
(* validate_and_complete_fields.                                           *)
(***************************************************************************)
FieldSpec(name, field_type, default_value, description, lookup_method) ==
    [name |-> name, field_type |-> field_type, default_value |-> default_value,
     description |-> description, lookup_method |-> lookup_method]

Required(name, description) ==
    FieldSpec(name, "REQUIRED_USER_INPUT", NoneV, description, "")
Default(name, value, description) ==
    FieldSpec(name, "AUTO_FILL_DEFAULT", IntV(value), description, "")
Lookup(name, description) ==
    FieldSpec(name, "AUTO_FILL_LOOKUP", NoneV, description, "get_contact")
ApiHandled(name, description) ==
    FieldSpec(name, "API_HANDLED", NoneV, description, "")

FIELD_SPECS ==
    [create_contact |->
        <<Required("name_1", "Contact name (company name or first name)"),
          Default("contact_type_id", 2, "Contact type (1=company, 2=person)"),
          Default("user_id", 1, "User ID (typically 1)"),
          Default("owner_id", 1, "Owner ID (typically 1)")>>,
     update_contact |->
        <<Lookup("name_1", "Contact name"),
          Lookup("contact_type_id", "Contact type"),
          ApiHandled("nr", "Contact number (API handles gracefully)"),
          Lookup("user_id", "User ID"),
          Lookup("owner_id", "Owner ID")>>,
     create_invoice |->
        <<Required("contact_id", "Contact ID for the invoice"),
          Default("user_id", 1, "User ID (typically 1)"),
          Required("positions", "Invoice line items array")>>,
     create_quote |->
        <<Required("contact_id", "Contact ID for the quote"),
          Default("user_id", 1, "User ID (typically 1)")>>,
     create_project |->
        <<Required("name", "Project name"),
          Required("contact_id", "Contact ID for the project"),
          Default("user_id", 1, "User ID (typically 1)"),
          Default("pr_state_id", 1, "Project state ID (1=active)"),
          Default("pr_project_type_id", 1, "Project type ID (1=default)")>>,
     create_item |->
        <<Required("intern_name", "Internal item name")>>,
     search_contacts |->
        <<Required("criteria", "Search criteria array with field, value, criteria")>>,
     search_invoices |->
        <<Required("criteria", "Search criteria array")>>,
     search_quotes |->
        <<Required("criteria", "Search criteria array")>>]

data_key_map ==
    [create_contact |-> "contact_data", update_contact |-> "contact_data",
     create_invoice |-> "invoice_data", create_quote |-> "quote_data",
     create_project |-> "project_data", create_item |-> "item_data"]

\* _get_data_key; "" stands for None (`if data_key` fails on both)
get_data_key(function_name) ==
    IF function_name \in DOMAIN data_key_map THEN data_key_map[function_name]
    ELSE ""

\* whether the payload is nested under the data key
\* (NestedNever is the variant that always works on the top level)
NestedNever(function_name, data) == FALSE
Nested(function_name, data) ==
    /\ get_data_key(function_name) # ""
    /\ get_data_key(function_name) \in DOMAIN data

\* what the upstream may answer to the GET /contact/{id} of a lookup
LookupContacts ==
    {Dict([name_1 |-> Str(<<"A", "c">>), contact_type_id |-> IntV(1),
           user_id |-> IntV(3), owner_id |-> IntV(3)]),
     Dict([name_1 |-> Str(<<"a">>), user_id |-> NoneV])}

LookupAnswers == Failures \cup {Json(c) : c \in LookupContacts}

\* the local state of a completion pass: the working mapping, the missing
\* list, and the requests issued so far with the upstream's answers
Pass(nested, missing, reqs, answers) ==
    [nested |-> nested, missing |-> missing, sent |-> reqs, replies |-> answers]

\* _lookup_field_value, given the upstream's answer to its request: the
\* value found (None when the lookup is not possible or fails)
lookup_field_value(client, lookup_method, context_id, field_name, reply) ==
    IF ~client \/ ~Truthy(context_id) THEN NoneV
    ELSE IF lookup_method = "get_contact"
         THEN LET res == request(reply)
              IN IF res.kind = "raise" THEN NoneV      \* except Exception
                 ELSE Get(res.value.v, field_name)
         ELSE NoneV

\* whether _lookup_field_value issues a request
LookupAsks(client, lookup_method, context_id) ==
    client /\ Truthy(context_id) /\ lookup_method = "get_contact"

Missing(spec, suffix) ==
    IF suffix = "" THEN <<spec.name, ": ", spec.description>>
    ELSE <<spec.name, ": ", spec.description, suffix>>

\* `field_name in nested_data and nested_data[field_name] is not None`
\* (FieldProvidedNotDefault is the variant that never takes a default-filled
\* field as provided)
FieldProvidedNotDefault(nested, spec) ==
    /\ spec.name \in DOMAIN nested
    /\ nested[spec.name] # NoneV
    /\ spec.field_type # "AUTO_FILL_DEFAULT"
FieldProvided(nested, spec) ==
    /\ spec.name \in DOMAIN nested
    /\ nested[spec.name] # NoneV

\* the request an iteration of the loop issues from local state p, if any:
\* GET /tax for the positions of an invoice, GET /contact/{id} for a lookup
Asks(function_name, spec, p, context_id, client) ==
    IF FieldProvided(p.nested, spec)
    THEN IF spec.name = "positions" /\ function_name = "create_invoice" /\ client
         THEN <<TaxRequest>> ELSE <<>>
    ELSE IF /\ spec.field_type = "AUTO_FILL_LOOKUP"
            /\ client
            /\ LookupAsks(client, spec.lookup_method, context_id)
         THEN <<Req("GET", ById("contact", context_id.v), NoneV, NoneV)>>
         ELSE <<>>

\* one iteration of the loop over the policy of the function, from local
\* state p; reply is the upstream's answer when the iteration asks
FieldStep(function_name, spec, p, context_id, client, reply) ==
    LET asks == Asks(function_name, spec, p, context_id, client)
        q == IF asks = <<>> THEN p
             ELSE [p EXCEPT !.sent = @ \o asks, !.replies = Append(@, reply)]
    IN IF FieldProvided(p.nested, spec)
       THEN IF spec.name = "positions" /\ function_name = "create_invoice"
            THEN [q EXCEPT !.nested = Put(@, spec.name,
                     List(complete_invoice_positions(
                         p.nested[spec.name].v,
                         get_default_tax_id(client, reply))))]
            ELSE q
       ELSE IF spec.field_type = "REQUIRED_USER_INPUT"
       THEN [q EXCEPT !.missing = Append(@, Missing(spec, ""))]
       ELSE IF spec.field_type = "AUTO_FILL_DEFAULT"
       THEN [q EXCEPT !.nested = Put(@, spec.name, spec.default_value)]
       ELSE IF spec.field_type = "AUTO_FILL_LOOKUP" /\ client
       THEN LET value == lookup_field_value(client, spec.lookup_method,
                                            context_id, spec.name, reply)
            IN IF value # NoneV
               THEN [q EXCEPT !.nested = Put(@, spec.name, value)]
               ELSE [q EXCEPT !.missing =
                        Append(@, Missing(spec, " (lookup failed)"))]
       ELSE q               \* API_HANDLED, or a lookup field without a client

\* what the upstream may answer to a request
AnswersTo(req) == IF req = TaxRequest THEN TaxAnswers ELSE LookupAnswers

\* the local states one iteration may end in, one per answer of the upstream
\* when the iteration asks
FieldSteps(function_name, spec, p, context_id, client) ==
    LET asks == Asks(function_name, spec, p, context_id, client)
    IN IF asks = <<>>
       THEN {FieldStep(function_name, spec, p, context_id, client, NoneV)}
       ELSE {FieldStep(function_name, spec, p, context_id, client, reply) :
                reply \in AnswersTo(asks[1])}

\* the loop over the policy: the local states the pass may end in
RECURSIVE Passes(_, _, _, _, _)
Passes(function_name, specs, p, context_id, client) ==
    IF specs = <<>> THEN {p}
    ELSE UNION {Passes(function_name, Tail(specs), q, context_id, client) :
                  q \in FieldSteps(function_name, Head(specs), p, context_id,
                                   client)}

\* the working mapping of a call: the nested mapping under the data key, or
\* the (copied) payload itself
Working(function_name, data) ==
    IF Nested(function_name, data) THEN data[get_data_key(function_name)].v
    ELSE data

\* `return data, []` for a function without a policy
\* (PassThroughDefaulted is the variant that fills a default all the same)
PassThroughDefaulted(data) ==
    [completed |-> Put(data, "user_id", IntV(1)), missing |-> <<>>,
     caller_data |-> data, sent |-> <<>>, replies |-> <<>>]
PassThrough(data) ==
    [completed |-> data, missing |-> <<>>, caller_data |-> data,
     sent |-> <<>>, replies |-> <<>>]

\* the working mapping put back: under the data key of the payload, or as
\* the payload itself
Reassemble(function_name, data, nested) ==
    IF Nested(function_name, data)
    THEN Put(data, get_data_key(function_name), Dict(nested))
    ELSE nested

\* validate_and_complete_fields: the results it may give, each with the
\* requests of the pass: completed_data, missing_user_fields, and the
\* caller's own payload as the call leaves it (its nested mapping is filled
\* in place, its top level is copied).  The handler `except Exception` of
\* line 156 is never entered: _lookup_field_value catches every exception
\* itself.
validate_and_complete_fields(function_name, data, context_id, client) ==
    IF function_name \notin DOMAIN FIELD_SPECS
    THEN {PassThrough(data)}
    ELSE {[completed |-> Reassemble(function_name, data, p.nested),
           missing |-> p.missing,
           caller_data |-> IF Nested(function_name, data)
                           THEN Reassemble(function_name, data, p.nested)
                           ELSE data,
           sent |-> p.sent, replies |-> p.replies]
          : p \in Passes(function_name, FIELD_SPECS[function_name],
                         Pass(Working(function_name, data), <<>>, <<>>, <<>>),
                         context_id, client)}

(***************************************************************************)
(* SpecComplete: validate_and_complete_fields on bounded payloads.         *)
(***************************************************************************)
\* a value a caller may give to a field
SampleValue(field_name) ==
    CASE field_name \in {"name_1", "name", "intern_name"} -> Str(<<"b">>)
      [] field_name = "criteria" ->
            List(<<Criterion(Str(FieldName), Str(OpEq), Str(<<"A">>))>>)
      [] OTHER -> IntV(5)

\* the positions of an invoice payload: items with and without a tax id
PayloadPositionLists ==
    SeqsUpTo({Dict(EmptyMap), Dict([text |-> Str(<<"A">>), tax_id |-> IntV(7)])},
             MaxPositions)

\* how a caller may treat a policy field: leave it out, give null, give a
\* value (for a default-filled field: the default, or another value)
FieldOptions(spec) ==
    CASE spec.name = "positions" ->
            {Absent, NoneV} \cup {List(l) : l \in PayloadPositionLists}
      [] spec.field_type = "REQUIRED_USER_INPUT" ->
            {Absent, NoneV, SampleValue(spec.name)}
      [] spec.field_type = "AUTO_FILL_DEFAULT" ->
            {Absent, NoneV, spec.default_value, IntV(spec.default_value.v + 4)}
      [] OTHER -> {Absent, SampleValue(spec.name)}

\* the mappings a caller may write over the fields of a policy
RECURSIVE Mappings(_)
Mappings(specs) ==
    IF specs = <<>> THEN {EmptyMap}
    ELSE {IF v = Absent THEN m ELSE Put(m, Head(specs).name, v) :
             v \in FieldOptions(Head(specs)), m \in Mappings(Tail(specs))}

\* a top-level key next to the data key
Sibling == "contact_id"

\* the mappings of a function: over the fields of its policy, and for a
\* quote also with line items, which its policy does not name
MappingsOf(function_name) ==
    Mappings(FIELD_SPECS[function_name]) \cup
    IF function_name = "create_quote"
    THEN {Put(m, "positions", List(l)) :
             m \in Mappings(FIELD_SPECS[function_name]),
             l \in PayloadPositionLists}
    ELSE {}

\* payloads of a function: the mapping itself, or the mapping under the
\* data key of the function next to a sibling key
PayloadsOf(function_name) ==
    IF function_name \notin DOMAIN FIELD_SPECS
    THEN {EmptyMap, [contact_id |-> IntV(1)]}
    ELSE MappingsOf(function_name) \cup
         IF get_data_key(function_name) = "" THEN {}
         ELSE {Put(Put(EmptyMap, Sibling, IntV(1)),
                   get_data_key(function_name), Dict(m)) :
                  m \in MappingsOf(function_name)}

\* functions without an entry in FIELD_SPECS
UnknownFunctions == {"get_contact", "delete_invoice"}

ContextIds == {NoneV, IntV(0), IntV(1)}

\* context_id is read by the lookups of update_contact alone
ContextIdsOf(function_name) ==
    IF function_name = "update_contact" THEN ContextIds ELSE {NoneV}

InitComplete ==
    /\ pc = "complete"
    /\ \E function_name \in DOMAIN FIELD_SPECS \cup UnknownFunctions,
          client \in BOOLEAN :
          \E data \in PayloadsOf(function_name),
             context_id \in ContextIdsOf(function_name) :
                call = [op |-> "validate_and_complete_fields",
                        function_name |-> function_name, data |-> data,
                        context_id |-> context_id, client |-> client,
                        caller_data |-> data]
    /\ sent = <<>>
    /\ replies = <<>>
    /\ outcome = [kind |-> "none"]
    /\ tool = NoTool
    /\ globals = NoGlobals

\* one call of validate_and_complete_fields, with its lookups
complete ==
    /\ pc = "complete"
    /\ \E r \in validate_and_complete_fields(call.function_name, call.data,
                                             call.context_id, call.client) :
          /\ call' = [call EXCEPT !.caller_data = r.caller_data]
          /\ sent' = r.sent
          /\ replies' = r.replies
          /\ Finish(Return([completed |-> r.completed, missing |-> r.missing]))

NextComplete == complete

SpecComplete == InitComplete /\ [][NextComplete]_vars

(***************************************************************************)
(* Properties of validate_and_complete_fields.                             *)
(***************************************************************************)
IsComplete == call.op = "validate_and_complete_fields" /\ pc = "done"

Governed == call.function_name \in DOMAIN FIELD_SPECS

Policy == FIELD_SPECS[call.function_name]

PolicyOf(field_type) ==
    {Policy[i] : i \in {j \in 1..Len(Policy) : Policy[j].field_type = field_type}}

\* the payload of the call is nested under the data key of its function
UnderDataKey ==
    /\ call.function_name \in DOMAIN data_key_map
    /\ data_key_map[call.function_name] \in DOMAIN call.data

\* the working mapping as the caller gave it, and as the call returned it
WorkingIn ==
    IF UnderDataKey THEN call.data[data_key_map[call.function_name]].v
    ELSE call.data
WorkingOut ==
    IF UnderDataKey
    THEN outcome.value.completed[data_key_map[call.function_name]].v
    ELSE outcome.value.completed

Given(m, k) == k \in DOMAIN m /\ m[k] # NoneV

\* the payload of the call with field k of its working mapping set to v
WithField(k, v) ==
    IF UnderDataKey
    THEN Put(call.data, data_key_map[call.function_name],
             Dict(Put(WorkingIn, k, v)))
    ELSE Put(call.data, k, v)

\* the pass over `specs` from local state p, the upstream answering its
\* requests with `answers`, in order
RECURSIVE Replay(_, _, _)
Replay(specs, p, answers) ==
    IF specs = <<>> THEN p
    ELSE LET asking == Asks(call.function_name, Head(specs), p,
                            call.context_id, call.client) # <<>>
         IN Replay(Tail(specs),
                   FieldStep(call.function_name, Head(specs), p,
                             call.context_id, call.client,
                             IF asking THEN Head(answers) ELSE NoneV),
                   IF asking THEN Tail(answers) ELSE answers)

\* what the call would have returned for payload `data`, the upstream
\* answering as it did
CompletedFor(data) ==
    Reassemble(call.function_name, data,
               Replay(Policy, Pass(Working(call.function_name, data),
                                   <<>>, <<>>, <<>>), replies).nested)

\* C12: for every operation and every default-filled field of its policy,
\* the payload that omits the field and the same payload with the field set
\* to the default complete to identical payloads, and a value the caller
\* supplied for the field (null counts as no value) is never replaced by the
\* default.
C12_DefaultFill ==
    (IsComplete /\ Governed) =>
        \A spec \in PolicyOf("AUTO_FILL_DEFAULT") :
           /\ spec.name \notin DOMAIN WorkingIn =>
                 CompletedFor(WithField(spec.name, spec.default_value))
                    = outcome.value.completed
           /\ Given(WorkingIn, spec.name) =>
                 WorkingOut[spec.name] = WorkingIn[spec.name]

\* create_contact with user_id 5 and no owner_id: user_id stays 5, owner_id
\* becomes 1
C12_Witness ==
    /\ IsComplete
    /\ call.function_name = "create_contact"
    /\ Given(WorkingIn, "user_id")
    /\ WorkingIn["user_id"] = IntV(5)
    /\ "owner_id" \notin DOMAIN WorkingIn
    /\ WorkingOut["user_id"] = IntV(5)
    /\ WorkingOut["owner_id"] = IntV(1)

Reported(spec) ==
    \E i \in 1..Len(outcome.value.missing) :
       outcome.value.missing[i][1] = spec.name

\* C14: in strict completion every lookup-filled field that is absent from
\* the working mapping and that the lookup does not fill (no context id,
\* lookup not possible, lookup failed) is recorded in the missing list; the
\* pass is not aborted, the other fields of the policy are still processed.
C14_LookupMissing ==
    (IsComplete /\ Governed) =>
        /\ outcome.kind = "return"
        /\ \A spec \in PolicyOf("AUTO_FILL_LOOKUP") :
              ~Given(WorkingIn, spec.name) =>
                  \/ Given(WorkingOut, spec.name)
                  \/ Reported(spec)

\* C15: a function without an entry in the policy table gets its payload
\* back unchanged, with an empty missing list, and no request is issued.
C15_PassThrough ==
    (IsComplete /\ ~Governed) =>
        /\ outcome = Return([completed |-> call.data, missing |-> <<>>])
        /\ call.caller_data = call.data
        /\ sent = <<>>

C15_Witness ==
    /\ IsComplete
    /\ call.function_name = "delete_invoice"
    /\ call.client
    /\ call.data = [contact_id |-> IntV(1)]
    /\ outcome.value.completed = call.data

PolicyNames == {Policy[i].name : i \in 1..Len(Policy)}

\* C16: when the payload is nested under the data key, completion fills
\* fields inside the nested mapping only: the top-level keys next to it are
\* unchanged and no policy field is added at the top level.
C16_NestedOnly ==
    (IsComplete /\ Governed /\ UnderDataKey) =>
        /\ DOMAIN outcome.value.completed = DOMAIN call.data
        /\ \A k \in DOMAIN call.data \ {data_key_map[call.function_name]} :
              outcome.value.completed[k] = call.data[k]
        /\ DOMAIN WorkingOut \subseteq DOMAIN WorkingIn \cup PolicyNames
        /\ \A spec \in PolicyOf("AUTO_FILL_DEFAULT") :
              ~Given(WorkingIn, spec.name) =>
                  WorkingOut[spec.name] = spec.default_value

\* create_project under project_data: the defaults land in project_data,
\* the top level keeps contact_id and gains nothing
C16_Witness ==
    /\ IsComplete
    /\ call.function_name = "create_project"
    /\ UnderDataKey
    /\ call.data["project_data"] = Dict(EmptyMap)
    /\ outcome.value.completed["project_data"].v["pr_state_id"] = IntV(1)
    /\ DOMAIN outcome.value.completed = {"contact_id", "project_data"}
    /\ outcome.value.completed["contact_id"] = IntV(1)

TaxQueries == {i \in 1..Len(sent) : sent[i] = TaxRequest}

\* the line items the caller gave without a tax id
Untaxed ==
    {i \in 1..Len(WorkingIn["positions"].v) :
        ~Given(WorkingIn["positions"].v[i].v, "tax_id")}

\* C19: within one completion call the default tax id is resolved at most
\* once (at most one query of the upstream taxes), and all line items
\* without a tax id receive that same id.
C19_SingleTaxResolution ==
    (IsComplete /\ Governed) =>
        /\ Cardinality(TaxQueries) <= 1
        /\ (call.function_name = "create_invoice"
               /\ Given(WorkingIn, "positions")) =>
              /\ call.client => Cardinality(TaxQueries) = 1
              /\ \A i \in Untaxed :
                    WorkingOut["positions"].v[i].v["tax_id"] =
                       IF call.client
                       THEN get_default_tax_id(TRUE, replies[1])
                       ELSE IntV(1)

\* two line items without a tax id, one query, both get the tax it chose
C19_Witness ==
    /\ IsComplete
    /\ call.function_name = "create_invoice"
    /\ call.client
    /\ Given(WorkingIn, "positions")
    /\ Cardinality(Untaxed) = 2
    /\ Cardinality(TaxQueries) = 1
    /\ replies[1].kind = "json"
    /\ \A i \in Untaxed :
          WorkingOut["positions"].v[i].v["tax_id"] = IntV(4)

(***************************************************************************)
(* The tool dispatcher (server.py): call_tool for the create and update    *)
(* tools.                                                                  *)
(* auto_complete_fields and create_helpful_error_message are called by     *)
(* call_tool and defined nowhere in the sources at hand; they follow the   *)
(* description of the permissive completion and of the error-message       *)
(* enrichment.                                                             *)
(***************************************************************************)
ToolNames ==
    {"create_contact", "update_contact", "create_invoice", "create_quote",
     "create_project", "create_item"}

\* the keys of `arguments` the branch of a tool reads, in order; the last is
\* the mapping handed to the Gateway (none: arguments itself)
ToolKeys(name) ==
    CASE name = "create_contact" -> <<"contact_data">>
      [] name = "update_contact" -> <<"contact_id", "contact_data">>
      [] name = "create_project" -> <<"project_data">>
      [] name = "create_item"    -> <<"item_data">>
      [] OTHER                   -> <<>>

\* the entity kind of a tool (ToolKindContact is the variant that sends
\* every tool to the contacts)
ToolKindContact(name) == "contact"
ToolKind(name) ==
    CASE name = "create_contact" -> "contact"
      [] name = "update_contact" -> "contact"
      [] name = "create_invoice" -> "invoice"
      [] name = "create_quote"   -> "quote"
      [] name = "create_project" -> "project"
      [] name = "create_item"    -> "item"

\* arguments of a tool call: the payloads of the function whose
\* default-filled fields are left to the completion, with at most one line
\* item
ToolArguments(name) ==
    {d \in PayloadsOf(name) :
        LET w == Working(name, d)
        IN /\ \A i \in 1..Len(FIELD_SPECS[name]) :
                 FIELD_SPECS[name][i].field_type = "AUTO_FILL_DEFAULT" =>
                    FIELD_SPECS[name][i].name \notin DOMAIN w
           /\ ("positions" \in DOMAIN w /\ w["positions"] # NoneV) =>
                 Len(w["positions"].v) <= 1}

\* the permissive completion: the payload as the strict completion of a
\* validator with a client leaves it, without the missing list
auto_complete_fields(name, arguments) ==
    {[completed |-> r.completed, sent |-> r.sent, replies |-> r.replies] :
        r \in validate_and_complete_fields(name, arguments, NoneV, TRUE)}

\* the enrichment of a validation-class error: a lead-in, then the original
\* message
create_helpful_error_message(error_msg) == <<"Validation error: ">> \o error_msg

\* json.dumps(result, indent=2)
JsonDumps(value) == [t |-> "json_text", of |-> value]

TextContent(text) == [type |-> "text", text |-> text]

MsgNoToken ==
    <<"Failed to create Bexio client: ", "Missing BEXIO_ACCESS_TOKEN. ",
      "Set it in your Claude config env or in a .env file.">>

\* the text call_tool answers with, given what its try block returned or
\* raised and the global validator (ToolTextLeadInOnly is the variant that
\* drops the message of a validation-class error)
ToolTextLeadInOnly(res, field_validator) ==
    IF res.kind = "return" THEN TextContent(JsonDumps(res.value))
    ELSE IF (\E i \in 1..Len(res.msg) : res.msg[i] = "422")
            /\ field_validator # NoneV
    THEN TextContent(<<"Validation error: ">>)
    ELSE TextContent(<<"Error: ">> \o res.msg)
ToolText(res, field_validator) ==
    IF res.kind = "return" THEN TextContent(JsonDumps(res.value))
    ELSE IF (\E i \in 1..Len(res.msg) : res.msg[i] = "422")
            /\ field_validator # NoneV
    THEN TextContent(create_helpful_error_message(res.msg))
    ELSE TextContent(<<"Error: ">> \o res.msg)

\* str.strip() on a token of blanks and other symbols
RECURSIVE Strip(_)
Strip(s) ==
    IF s = <<>> THEN s
    ELSE IF Head(s) = " " THEN Strip(Tail(s))
    ELSE IF s[Len(s)] = " " THEN Strip(SubSeq(s, 1, Len(s) - 1))
    ELSE s

\* BEXIO_ACCESS_TOKEN in the environment of the server: unset or empty,
\* blank, a token, a token after a blank
Tokens == {<<>>, <<" ", " ">>, <<"t">>, <<" ", "t">>}

\* the server module once loaded: no client, no validator, none constructed
ServerGlobals(token) ==
    [token |-> token, bexio_client |-> NoneV, field_validator |-> NoneV,
     constructed |-> 0]

\* `if bexio_client is None` (NeedsInitAlways is the variant without the
\* test)
NeedsInitAlways(g) == TRUE
NeedsInit(g) == g.bexio_client = NoneV

\* get_bexio_client on globals g: the globals it leaves and what it returns
\* or raises (get_bexio_client_unstripped is the variant without .strip())
get_bexio_client_unstripped(g) ==
    IF ~NeedsInit(g)
    THEN [globals |-> g, res |-> Return(g.bexio_client)]
    ELSE IF g.token = <<>>
    THEN [globals |-> g, res |-> Raise("ValueError", MsgNoToken)]
    ELSE LET client == [t |-> "BexioClient", n |-> g.constructed + 1,
                        access_token |-> g.token]
         IN [globals |-> [g EXCEPT !.bexio_client = client,
                                   !.field_validator =
                                       [t |-> "BexioFieldValidator",
                                        bexio_client |-> client],
                                   !.constructed = g.constructed + 1],
             res |-> Return(client)]
get_bexio_client(g) ==
    IF ~NeedsInit(g)
    THEN [globals |-> g, res |-> Return(g.bexio_client)]
    ELSE IF Strip(g.token) = <<>>
    THEN [globals |-> g, res |-> Raise("ValueError", MsgNoToken)]
    ELSE LET client == [t |-> "BexioClient", n |-> g.constructed + 1,
                        access_token |-> Strip(g.token)]
         IN [globals |-> [g EXCEPT !.bexio_client = client,
                                   !.field_validator =
                                       [t |-> "BexioFieldValidator",
                                        bexio_client |-> client],
                                   !.constructed = g.constructed + 1],
             res |-> Return(client)]

(***************************************************************************)
(* SpecTool: one tool call, from call_tool to the text it answers with.    *)
(***************************************************************************)
InitTool ==
    /\ pc = "tool"
    /\ call = [op |-> "none"]
    /\ sent = <<>>
    /\ replies = <<>>
    /\ outcome = [kind |-> "none"]
    /\ \E name \in ToolNames :
          \E arguments \in ToolArguments(name) :
             tool = [name |-> name, given |-> arguments, arguments |-> arguments,
                     result |-> NoneV]
    /\ \E token \in Tokens : globals = ServerGlobals(token)

\* get_bexio_client raises: call_tool answers with the error
tool_no_client ==
    /\ pc = "tool"
    /\ LET got == get_bexio_client(globals)
       IN /\ got.res.kind = "raise"
          /\ globals' = got.globals
          /\ outcome' = got.res
          /\ tool' = [tool EXCEPT
                         !.result = ToolText(got.res, got.globals.field_validator)]
    /\ pc' = "returned"
    /\ UNCHANGED <<call, sent, replies>>

\* get_bexio_client gives the client, the arguments are completed
tool_complete ==
    /\ pc = "tool"
    /\ LET got == get_bexio_client(globals)
       IN /\ got.res.kind = "return"
          /\ globals' = got.globals
    /\ \E r \in auto_complete_fields(tool.name, tool.arguments) :
          /\ tool' = [tool EXCEPT !.arguments = r.completed]
          /\ sent' = sent \o r.sent
          /\ replies' = replies \o r.replies
    /\ pc' = "dispatch"
    /\ UNCHANGED <<call, outcome>>

\* the first key the branch of the tool reads and `arguments` lacks
RECURSIVE MissingKey(_, _)
MissingKey(keys, arguments) ==
    IF keys = <<>> THEN ""
    ELSE IF Head(keys) \notin DOMAIN arguments THEN Head(keys)
    ELSE MissingKey(Tail(keys), arguments)

\* the branch of the tool: the Gateway operation is called with the
\* completed arguments, or with the mapping under the key of the tool
tool_dispatch ==
    /\ pc = "dispatch"
    /\ LET keys == ToolKeys(tool.name)
           lack == MissingKey(keys, tool.arguments)
       IN IF lack # ""
          THEN /\ call' = [op |-> "none"]
               /\ Finish(Raise("KeyError", <<"'", lack, "'">>))
               /\ UNCHANGED <<sent, replies>>
          ELSE LET data == IF keys = <<>> THEN tool.arguments
                           ELSE tool.arguments[keys[Len(keys)]].v
               IN CASE tool.name = "create_contact" -> CreateContact(data)
                    [] tool.name = "update_contact" ->
                          UpdateContact(tool.arguments["contact_id"].v, data)
                    [] tool.name = "create_invoice" -> CreateInvoice(data)
                    [] OTHER -> CreatePlain(ToolKind(tool.name), data)

\* the try block of call_tool returned or raised: the answer of the tool
tool_return ==
    /\ pc = "done"
    /\ tool # NoTool
    /\ tool' = [tool EXCEPT !.result = ToolText(outcome, globals.field_validator)]
    /\ pc' = "returned"
    /\ UNCHANGED <<call, sent, replies, outcome, globals>>

NextTool ==
    \/ tool_no_client
    \/ tool_complete
    \/ tool_dispatch
    \/ await_reply
    \/ update_contact_get
    \/ update_contact_put
    \/ update_contact_fallback
    \/ tool_return

SpecTool == InitTool /\ [][NextTool]_vars

(***************************************************************************)
(* Properties of call_tool.                                                *)
(***************************************************************************)
\* the working mapping of the tool call as the caller gave it
ToolWorkingIn ==
    IF /\ tool.name \in DOMAIN data_key_map
       /\ data_key_map[tool.name] \in DOMAIN tool.given
    THEN tool.given[data_key_map[tool.name]].v
    ELSE tool.given

\* a required-from-caller field of the tool is absent or null
RequiredAbsent ==
    /\ tool # NoTool
    /\ \E i \in 1..Len(FIELD_SPECS[tool.name]) :
          /\ FIELD_SPECS[tool.name][i].field_type = "REQUIRED_USER_INPUT"
          /\ ~Given(ToolWorkingIn, FIELD_SPECS[tool.name][i].name)

\* C13: when a required-from-caller field of an operation is absent (or
\* null) in the working mapping at completion time, the field is reported
\* as missing and no upstream request for that operation is sent.
C13_RequiredBlocksRequest ==
    RequiredAbsent =>
        \A i \in 1..Len(sent) : sent[i].method \notin Mutating

(***************************************************************************)
(* The caller's payload, line items of a quote, the policy of an item and  *)
(* the agreement of completion with the Gateway's own checks.              *)
(***************************************************************************)
\* C29: validate_and_complete_fields leaves the payload the caller passed
\* as it was, the mapping nested under the data key and its positions list
\* included: what the call fills is in the returned payload alone.
C29_InputUnchanged == IsComplete => call.caller_data = call.data

\* the fields of a completed line item
ItemFields == {"type", "text", "amount", "unit_price", "tax_id"}

\* every item of the returned positions list has the fields of a line item
PositionsCompleted ==
    \A i \in 1..Len(WorkingOut["positions"].v) :
       ItemFields \subseteq DOMAIN WorkingOut["positions"].v[i].v

\* C21: positions given in the payload of an invoice creation or of a quote
\* creation are run through line-item completion: every item returned has
\* its type, text, amount, unit price and tax id.
C21_PositionsAlwaysCompleted ==
    (IsComplete /\ call.function_name \in {"create_invoice", "create_quote"}
                /\ Given(WorkingIn, "positions")) => PositionsCompleted

\* the values the module documentation promises for an item
ItemDefaults ==
    [user_id |-> IntV(1), article_type_id |-> IntV(1), currency_id |-> IntV(1),
     is_stock |-> BoolV(FALSE), delivery_price |-> IntV(0)]

\* C26: a create_item payload that omits user_id, article_type_id,
\* currency_id, is_stock and delivery_price is returned with them set to
\* 1, 1, 1, false and 0; a value the caller gave is kept.
C26_ItemDefaults ==
    (IsComplete /\ call.function_name = "create_item") =>
        \A k \in DOMAIN ItemDefaults :
           /\ ~Given(WorkingIn, k) =>
                 (k \in DOMAIN WorkingOut /\ WorkingOut[k] = ItemDefaults[k])
           /\ Given(WorkingIn, k) => WorkingOut[k] = WorkingIn[k]

\* C30: when the completion of a create_invoice payload reports no missing
\* field, the checks create_invoice makes before its request accept the
\* completed payload.
C30_CompletionAgreesWithGateway ==
    (IsComplete /\ call.function_name = "create_invoice" /\ ~UnderDataKey
                /\ outcome.value.missing = <<>>) =>
        InvoiceValidation(outcome.value.completed).kind = "none"

(***************************************************************************)
(* SpecError: _request on non-2xx responses with bounded bodies.           *)
(***************************************************************************)
\* the JSON objects of an error body: each of message, error, detail and
\* errors left out or given, message and errors also given empty
ErrorObjects ==
    {[k \in {j \in {"message", "error", "detail", "errors"} :
                <<m, e, d, l>>[CASE j = "message" -> 1 [] j = "error" -> 2
                                 [] j = "detail" -> 3 [] j = "errors" -> 4]
                   # Absent} |->
         CASE k = "message" -> m [] k = "error" -> e
           [] k = "detail" -> d [] k = "errors" -> l] :
       m \in {Absent, Str(<<>>), Str(<<"m">>)},
       e \in {Absent, NoneV, Str(<<"e">>)},
       d \in {Absent, Str(<<"d">>)},
       l \in {Absent, List(<<>>), List(<<Str(<<"f">>), Str(<<"g">>)>>)}}

\* non-2xx responses: the body a JSON object, another JSON value, text that
\* is not JSON, nothing
ErrorReplies ==
    {Status(s, b) :
        s \in {404, 422, 500},
        b \in {Body(<<"{}">>, Dict(o)) : o \in ErrorObjects} \cup
              {Body(<<"[]">>, List(<<>>)), Body(<<"\"down\"">>, Str(<<"down">>)),
               Body(<<"<html>">>, NotJson), Body(<<>>, NotJson)}}

InitError ==
    /\ pc = "request"
    /\ \E method \in {"GET", "POST", "PUT", "DELETE"}, kind \in Kinds :
          call = [op |-> "_request",
                  req |-> Req(method, Endpoint(kind), Absent, Absent)]
    /\ sent = <<>>
    /\ replies = <<>>
    /\ outcome = [kind |-> "none"]
    /\ tool = NoTool
    /\ globals = NoGlobals

\* one call of _request: the request goes out, the upstream answers, the
\* call returns the body or raises
request_answered ==
    /\ pc = "request"
    /\ \E reply \in ErrorReplies \cup Failures \cup {Json(e) : e \in Entities} :
          /\ sent' = Append(sent, call.req)
          /\ replies' = Append(replies, reply)
          /\ Finish(request(reply))
    /\ UNCHANGED call

NextError == request_answered

SpecError == InitError /\ [][NextError]_vars

(***************************************************************************)
(* Properties of the error value of _request.                              *)
(***************************************************************************)
IsRequest == call.op = "_request" /\ pc = "done"

\* field k of a JSON object is there with a non-empty value
Carried(o, k) == k \in DOMAIN o /\ o[k] # NoneV /\ o[k].v # <<>>

\* the first of message, error and detail that is there, after ": "
FirstCarried(o) ==
    IF Carried(o, "message") THEN <<": ">> \o o["message"].v
    ELSE IF Carried(o, "error") THEN <<": ">> \o o["error"].v
    ELSE IF Carried(o, "detail") THEN <<": ">> \o o["detail"].v
    ELSE <<>>

\* the field-level errors, when there are any
ErrorsCarried(o) ==
    IF Carried(o, "errors")
    THEN <<" | errors: ", "[">> \o ReprItems(o["errors"].v) \o <<"]">>
    ELSE <<>>

\* C27: for a non-2xx response _request raises one error value whose text
\* carries the HTTP status; when the body is a JSON object the text goes on
\* with the first of message, error and detail that has a value and with the
\* field-level errors when there are any; when the body is not such an
\* object the text goes on with the raw response text.
C27_ErrorDetail ==
    (IsRequest /\ replies[1].kind = "status") =>
        LET reply == replies[1]
            json  == reply.body.json
            head  == <<"Bexio API error - ", "HTTP ", ToString(reply.status)>>
        IN /\ outcome.kind = "raise"
           /\ outcome.exc = "ValueError"
           /\ outcome.msg =
                 IF json.t = "dict"
                 THEN head \o FirstCarried(json.v) \o ErrorsCarried(json.v)
                 ELSE head \o <<": ">> \o reply.body.text

\* a 500 whose body has an empty message, an error, a detail and two field
\* errors: the text carries the error and the two field errors
C27_Witness ==
    /\ IsRequest
    /\ replies[1].kind = "status"
    /\ replies[1].status = 500
    /\ replies[1].body.json.t = "dict"
    /\ DOMAIN replies[1].body.json.v = {"message", "error", "detail", "errors"}
    /\ replies[1].body.json.v["message"] = Str(<<>>)
    /\ replies[1].body.json.v["error"] = Str(<<"e">>)
    /\ replies[1].body.json.v["errors"].v # <<>>
    /\ outcome.kind = "raise"
    /\ outcome.msg = <<"Bexio API error - ", "HTTP ", "500", ": ", "e",
                       " | errors: ", "[", "'", "f", "'", ", ", "'", "g", "'",
                       "]">>

\* C25: no failure is turned into a result that looks successful: a
\* completion that leaves a required or looked-up field of the policy
\* without a value reports missing fields.
C25_NoHiddenFailure ==
    (IsComplete /\ Governed) =>
        ((\E spec \in PolicyOf("REQUIRED_USER_INPUT") \cup
                      PolicyOf("AUTO_FILL_LOOKUP") :
             ~Given(WorkingOut, spec.name))
            => outcome.value.missing # <<>>)

(***************************************************************************)
(* Properties of a tool call: initialization, the pipeline, the errors.    *)
(***************************************************************************)
IsTool == tool # NoTool /\ "result" \in DOMAIN tool

\* the access token is empty or holds blanks only
Blank(token) == \A i \in 1..Len(token) : token[i] = " "

\* C24: with an access token that is empty or blank, get_bexio_client
\* raises: the tool call ends with the error, no client and no validator
\* exists, and no upstream request was sent.
C24_BlankTokenFails ==
    (IsTool /\ Blank(globals.token)) =>
        /\ globals.bexio_client = NoneV
        /\ globals.field_validator = NoneV
        /\ globals.constructed = 0
        /\ sent = <<>>
        /\ pc \in {"tool", "returned"}
        /\ pc = "returned" =>
              /\ outcome = Raise("ValueError", MsgNoToken)
              /\ tool.result = TextContent(<<"Error: ">> \o MsgNoToken)

\* a tool call in an environment whose token is two blanks has ended
C24_Witness ==
    /\ IsTool
    /\ globals.token = <<" ", " ">>
    /\ pc = "returned"
    /\ outcome.kind = "raise"
    /\ tool.result # NoneV

ValidArguments ==
    /\ IF tool.name \in {"create_invoice", "create_quote"}
       THEN data_key_map[tool.name] \notin DOMAIN tool.given
       ELSE /\ data_key_map[tool.name] \in DOMAIN tool.given
            /\ tool.name = "update_contact" => "contact_id" \in DOMAIN tool.given
    /\ ~RequiredAbsent
    /\ tool.name = "create_invoice" =>
          InvoiceValidation(tool.given).kind = "none"

HealthyUpstream == \A i \in 1..Len(replies) : replies[i].kind = "json"

\* the endpoint of the Gateway operation behind each tool
ToolEndpoint ==
    [create_contact |-> "/contact", update_contact |-> "/contact",
     create_invoice |-> "/kb_invoice", create_quote |-> "/kb_offer",
     create_project |-> "/pr_project", create_item |-> "/article"]

\* the completed payload of the tool: the mapping under its data key, or
\* the arguments themselves
ToolData ==
    IF /\ tool.name \in DOMAIN data_key_map
       /\ data_key_map[tool.name] \in DOMAIN tool.arguments
    THEN tool.arguments[data_key_map[tool.name]].v
    ELSE tool.arguments

InitServer ==
    /\ pc = [i \in 1..MaxInvocations |-> "tool"]
    /\ call = [op |-> "call_tool"]
    /\ sent = <<>>
    /\ replies = <<>>
    /\ outcome = [i \in 1..MaxInvocations |-> [kind |-> "none"]]
    /\ tool = [name |-> "call_tool"]
    /\ \E token \in Tokens : globals = ServerGlobals(token)

\* tool call i enters call_tool: get_bexio_client raises and the call
\* answers with the error, or gives the client and the call is suspended at
\* its next await
invoke(i) ==
    /\ pc[i] = "tool"
    /\ LET got == get_bexio_client(globals)
       IN /\ globals' = got.globals
          /\ outcome' = [outcome EXCEPT ![i] = got.res]
          /\ pc' = [pc EXCEPT ![i] = IF got.res.kind = "raise" THEN "returned"
                                     ELSE "await"]
    /\ UNCHANGED <<call, sent, replies, tool>>

\* tool call i resumes and runs to its return
resume(i) ==
    /\ pc[i] = "await"
    /\ pc' = [pc EXCEPT ![i] = "returned"]
    /\ UNCHANGED <<call, sent, replies, outcome, tool, globals>>

NextServer == \E i \in 1..MaxInvocations : invoke(i) \/ resume(i)

SpecServer == InitServer /\ [][NextServer]_vars

(***************************************************************************)
(* Properties of the global client and validator.                          *)
(***************************************************************************)
IsServer == call.op = "call_tool"

\* C28: however concurrent tool calls interleave, at most one client and
\* one validator are constructed, every tool call that got a client got
\* that one, the global client is set exactly when the global validator is
\* set (and the validator wraps that client), and once a tool call failed to
\* initialize both globals are unset, so that the next one initializes
\* again.
C28_SingleClient ==
    IsServer =>
        /\ globals.constructed <= 1
        /\ (globals.bexio_client = NoneV) <=> (globals.field_validator = NoneV)
        /\ (globals.bexio_client = NoneV) <=> (globals.constructed = 0)
        /\ globals.field_validator # NoneV =>
              globals.field_validator.bexio_client = globals.bexio_client
        /\ \A i \in 1..MaxInvocations :
              /\ outcome[i].kind = "return" =>
                    /\ outcome[i].value # NoneV
                    /\ outcome[i].value = globals.bexio_client
              /\ outcome[i].kind = "raise" =>
                    /\ globals.bexio_client = NoneV
                    /\ globals.field_validator = NoneV
                    /\ \A j \in 1..MaxInvocations :
                          pc[j] = "tool" => ENABLED invoke(j)

\* two tool calls are suspended at once, a third has returned, all three
\* with the client constructed by the first to enter
C28_Witness ==
    /\ IsServer
    /\ globals.constructed = 1
    /\ \E i, j, k \in 1..MaxInvocations :
          /\ i # j /\ j # k /\ i # k
          /\ pc[i] = "await" /\ pc[j] = "await" /\ pc[k] = "returned"
          /\ outcome[i].value = globals.bexio_client
          /\ outcome[j].value = globals.bexio_client
          /\ outcome[k].value = globals.bexio_client

====
